---- MODULE Spec2Model ----
(***************************************************************************)
(* netpump-go: the tunnel transport and multiplexing bridge.               *)
(*                                                                         *)
(* SpecClient  : the Initiator's session manager (Client.muxSession,       *)
(*               Client.wsConn under Client.muxMu), its websocket          *)
(*               handlers and dialThroughTunnel, with an arbitrary peer    *)
(*               at the far end of the logical stream.                     *)
(* SpecTunnel  : dialThroughTunnel's control exchange against the          *)
(*               Acceptor's handleStream, followed by the relay.           *)
(* SpecAdapter : wsAdapter.Read over a sequence of websocket messages.      *)
(* SpecWriter  : wsAdapter.Write called from the session's send loop.      *)
(* SpecAcceptor: Server.handleWebSocket and its streams, per websocket.    *)
(* SpecStop    : SpecClient's handlers and dial with Client.Stop.          *)
(* FairLock    : Client.muxMu step by step: the handlers, the dial loop    *)
(*               and further callers, with the lock's fairness.            *)
(***************************************************************************)
EXTENDS Integers, Sequences, FiniteSets, TLC

\* ------------------------------------------------------------------ data

\* the websocket connections (one handleLocalWebSocket call each); the yamux
\* session built over channel ch is named by ch as well
Chans == {"A", "B"}

\* the nil pointer of Client.muxSession / Client.wsConn
Nil == "nil"

\* for retries := 0; retries < 30; retries++
MaxRetries == 30

\* a Go byte
ByteMod == 256

\* the status byte has not been read yet
NoStatus == 0 - 1

\* the tasks that call Write on one wsAdapter
Writers == {"w1", "w2"}

\* the logical streams one Acceptor session can accept
StreamIds == {"s1", "s2"}

\* status bytes an arbitrary peer may answer with
PeerStatusBytes == {0, 1, 2, 255}

VARIABLES
    \* Client fields
    muxSession,   \* Client.muxSession: Nil or the channel of the current session
    wsConn,       \* Client.wsConn: Nil or a channel
    muxMu,        \* Client.muxMu: "free" or the channel whose handler holds it
    \* the websocket connections and the yamux sessions over them
    ws,           \* ws[ch]: "none" | "open" | "closed"
    session,      \* session[ch]: "none" | "open" | "closed"
    hpc,          \* position of handleLocalWebSocket for ch
    superseded,   \* history: the value of muxSession that ch's attach overwrote
    \* one dialThroughTunnel call
    dpc,          \* position of the call
    retries,      \* the loop counter
    ctxDone,      \* the caller's context is cancelled
    dres,         \* the outcome of the call
    addr,         \* the addr argument, a sequence of bytes
    status,       \* status[0] once read
    \* the logical stream the call opened
    stream,       \* "none" | "open": a stream was obtained from Open()
    streamSess,   \* the session the stream belongs to
    cliClosed,    \* the Initiator called stream.Close()
    c2s,          \* bytes written by the Initiator, not yet read by the Acceptor
    s2c,          \* bytes written by the Acceptor, not yet read by the Initiator
    peerClosed,   \* the far end closed the stream (FIN)
    \* the user of the returned stream (the SOCKS5 relay on the Initiator)
    userSent,     \* number of payload bytes written to the stream
    userClosed,   \* the user closed the stream
    \* the Acceptor: one handleStream call and its relay
    srvSess,      \* the Acceptor's yamux session: "open" | "closed"
    spc,          \* position of handleStream
    addrLen,      \* int(lenBuf[0])
    target,       \* string(addrBuf)
    dialRes,      \* net.DialTimeout's outcome: "none" | "ok" | "fail"
    consumed,     \* number of stream bytes the control exchange has read
    srvWrote,     \* the bytes handleStream itself passed to stream.Write
    srvClosed,    \* the Acceptor called stream.Close()
    conn,         \* the dialed connection: "none" | "open" | "closed"
    connIn,       \* bytes sent by the target, not yet read
    targetSent,   \* number of payload bytes the target has sent
    targetEOF,    \* the target has finished sending
    connOut,      \* bytes delivered to the target
    toStream,     \* bytes the relay delivered to the stream
    preloaded,    \* history: both inputs were complete when the relay started
    upc,          \* position of the goroutine io.Copy(conn, stream)
    ubuf,         \* its buffer
    dnpc,         \* position of the goroutine io.Copy(stream, conn)
    dbuf,         \* its buffer
    done,         \* number of values in the channel done
    \* Client.Stop
    stpc,         \* position of Client.Stop
    cCtxDone,     \* c.ctx is cancelled
    \* one wsAdapter: the channel's inbound side, the cursor, the reads
    aLens,        \* the lengths of the messages the far end sends, in order
    aArrived,     \* number of messages that have arrived on the channel
    aFetched,     \* number of messages ws.NextReader has returned
    aReader,      \* wsAdapter.reader: has |-> FALSE for nil, else the unread rest
    aChan,        \* "open" | "closed": the channel failed or was closed
    aOut,         \* all bytes the Read calls have returned, in order
    aLast,        \* what the last Read call returned
    \* the adapter's writers
    wpc,          \* wpc[w]: "idle" | "inside" ws.WriteMessage | "done"
    aSent,        \* the messages written to the channel, in order
    wLast,        \* wLast[w]: what w's Write call returned
    \* the Acceptor endpoint: Server.handleWebSocket per websocket
    sws,          \* sws[ch]: "none" | "open" | "closed"
    ssess,        \* ssess[ch]: the session of that call: "none" | "open" | "closed"
    shpc,         \* shpc[ch]: "idle" | "accept" | "done"
    sstrm,        \* sstrm[ch][s]: the logical stream s of the session over ch
    sconn,        \* sconn[ch][s]: the connection dialed for it
    \* the other dialThroughTunnel calls, by their use of Client.muxMu
    qpc           \* "idle" | "check" | "locked" | "wait"

clientVars == <<muxSession, wsConn, muxMu, ws, session, hpc, superseded>>
dialVars == <<dpc, retries, ctxDone, dres, addr, status>>
streamVars == <<stream, streamSess, cliClosed, c2s, s2c, peerClosed>>
userVars == <<userSent, userClosed>>
serverVars == <<srvSess, spc, addrLen, target, dialRes, consumed, srvWrote, srvClosed>>
connVars == <<conn, connIn, targetSent, targetEOF, connOut, toStream, preloaded>>
relayVars == <<upc, ubuf, dnpc, dbuf, done>>
serverVarsButPc == <<srvSess, addrLen, target, dialRes, consumed, srvWrote, srvClosed>>
acceptorVars == <<userVars, serverVars, connVars, relayVars>>
stopVars == <<stpc, cCtxDone>>
adapterVars == <<aLens, aArrived, aFetched, aReader, aChan, aOut, aLast, wpc, aSent, wLast>>
endpointVars == <<sws, ssess, shpc, sstrm, sconn>>
callerVars == <<qpc>>
restVars == <<stopVars, adapterVars, endpointVars, callerVars>>
vars == <<clientVars, dialVars, streamVars, acceptorVars, restVars>>

\* ------------------------------------------------------ websocket handlers

\* websocket.Conn.Close on a connection
CloseWs(w, ch) == IF ch # Nil /\ w[ch] = "open" THEN [w EXCEPT ![ch] = "closed"] ELSE w

\* upgrader.Upgrade succeeded: a browser tab connected (the web server takes
\* no request once Stop has closed it)
HUpgrade(ch) ==
    /\ hpc[ch] = "idle"
    /\ stpc # "done"
    /\ hpc' = [hpc EXCEPT ![ch] = "lock"]
    /\ ws' = [ws EXCEPT ![ch] = "open"]
    /\ UNCHANGED <<restVars, muxSession, wsConn, muxMu, session, superseded, dialVars, streamVars, acceptorVars>>

\* c.muxMu.Lock(); if c.wsConn != nil { c.wsConn.Close() }; c.wsConn = ws
HAttachBegin(ch) ==
    /\ hpc[ch] = "lock"
    /\ muxMu = "free"
    /\ muxMu' = ch
    /\ ws' = CloseWs(ws, wsConn)
    /\ wsConn' = ch
    /\ hpc' = [hpc EXCEPT ![ch] = "setup"]
    /\ UNCHANGED <<restVars, muxSession, session, superseded, dialVars, streamVars, acceptorVars>>

\* session, err := yamux.Server(conn, nil) with err == nil;
\* c.muxSession = session; c.muxMu.Unlock()
HAttachPublish(ch) ==
    /\ hpc[ch] = "setup"
    /\ muxMu = ch
    /\ session' = [session EXCEPT ![ch] = "open"]
    /\ superseded' = [superseded EXCEPT ![ch] = muxSession]
    /\ muxSession' = ch
    /\ muxMu' = "free"
    /\ hpc' = [hpc EXCEPT ![ch] = "wait"]
    /\ UNCHANGED <<restVars, wsConn, ws, dialVars, streamVars, acceptorVars>>

\* yamux.Server returned an error: c.muxMu.Unlock(); return (defer ws.Close())
HAttachFail(ch) ==
    /\ hpc[ch] = "setup"
    /\ muxMu = ch
    /\ muxMu' = "free"
    /\ ws' = CloseWs(ws, ch)
    /\ hpc' = [hpc EXCEPT ![ch] = "done"]
    /\ UNCHANGED <<restVars, muxSession, wsConn, session, superseded, dialVars, streamVars, acceptorVars>>

\* <-session.CloseChan() returns once the session is closed
HCloseNotified(ch) ==
    /\ hpc[ch] = "wait"
    /\ session[ch] = "closed"
    /\ hpc' = [hpc EXCEPT ![ch] = "clear"]
    /\ UNCHANGED <<restVars, muxSession, wsConn, muxMu, ws, session, superseded, dialVars, streamVars, acceptorVars>>

\* c.muxMu.Lock(); c.muxSession = nil; c.wsConn = nil; c.muxMu.Unlock();
\* return (defer ws.Close())
HClear(ch) ==
    /\ hpc[ch] = "clear"
    /\ muxMu = "free"
    /\ muxSession' = Nil
    /\ wsConn' = Nil
    /\ ws' = CloseWs(ws, ch)
    /\ hpc' = [hpc EXCEPT ![ch] = "done"]
    /\ UNCHANGED <<restVars, muxMu, session, superseded, dialVars, streamVars, acceptorVars>>

\* the browser tab goes away: the websocket ends
WsDrop(ch) ==
    /\ ws[ch] = "open"
    /\ ws' = [ws EXCEPT ![ch] = "closed"]
    /\ UNCHANGED <<restVars, muxSession, wsConn, muxMu, session, hpc, superseded, dialVars, streamVars, acceptorVars>>

\* the session's receive loop fails on the closed websocket and closes the session
SessClose(ch) ==
    /\ session[ch] = "open"
    /\ ws[ch] = "closed"
    /\ session' = [session EXCEPT ![ch] = "closed"]
    /\ UNCHANGED <<restVars, muxSession, wsConn, muxMu, ws, hpc, superseded, dialVars, streamVars, acceptorVars>>

Handlers ==
    \E ch \in Chans :
        \/ HUpgrade(ch)
        \/ HAttachBegin(ch)
        \/ HAttachPublish(ch)
        \/ HAttachFail(ch)
        \/ HCloseNotified(ch)
        \/ HClear(ch)
        \/ WsDrop(ch)
        \/ SessClose(ch)

\* ------------------------------------------------------ dialThroughTunnel

\* a conversion that keeps 7 bits only
ByteOfSevenBits(n) == n % 128

\* byte(len(addr)): the conversion of an int to a byte keeps the low 8 bits
ByteOf(n) == n % ByteMod

\* header := []byte{byte(len(addr))}; header = append(header, []byte(addr)...)
Header(a) == <<ByteOf(Len(a))>> \o a

\* what c.muxSession.Open() can return on session s: a stream only while the
\* session is open; an error always (shutdown, go-away, exhausted stream ids)
OpenOutcomes(s) == IF session[s] = "open" THEN {"stream", "error"} ELSE {"error"}

\* a write on the Initiator's end of the stream succeeds while its session lives
CliWritable == session[streamSess] = "open"

\* a read on the Initiator's end fails once nothing is buffered and the far end
\* closed or the session died
CliReadEnded == s2c = <<>> /\ (peerClosed \/ srvClosed \/ session[streamSess] = "closed")

\* the SOCKS5 server calls the Dial hook for an accepted connection
DialStart ==
    /\ dpc = "idle"
    /\ dpc' = "check"
    /\ UNCHANGED <<restVars, clientVars, retries, ctxDone, dres, addr, status, streamVars, acceptorVars>>

\* a pass that treats an error of Open like an absent session: it waits for
\* the next tick and polls again
DialCheckRetryOnError ==
    /\ dpc = "check"
    /\ muxMu = "free"
    /\ IF muxSession # Nil
       THEN \E o \in OpenOutcomes(muxSession) :
                IF o = "stream"
                THEN /\ stream' = "open"
                     /\ streamSess' = muxSession
                     /\ dpc' = "write"
                ELSE /\ dpc' = "wait"
                     /\ UNCHANGED <<stream, streamSess>>
       ELSE /\ dpc' = "wait"
            /\ UNCHANGED <<stream, streamSess>>
    /\ UNCHANGED <<restVars, clientVars, retries, ctxDone, dres, addr, status, cliClosed, c2s, s2c,
                   peerClosed, acceptorVars>>

\* one pass of the loop body up to the select: Lock, test muxSession, Open, Unlock
DialCheck ==
    /\ dpc = "check"
    /\ muxMu = "free"
    /\ IF muxSession # Nil
       THEN \E o \in OpenOutcomes(muxSession) :
                IF o = "stream"
                THEN /\ stream' = "open"
                     /\ streamSess' = muxSession
                     /\ dpc' = "write"
                     /\ dres' = dres
                ELSE /\ dpc' = "done"
                     /\ dres' = "openfail"
                     /\ UNCHANGED <<stream, streamSess>>
       ELSE /\ dpc' = "wait"
            /\ UNCHANGED <<stream, streamSess, dres>>
    /\ UNCHANGED <<restVars, clientVars, retries, ctxDone, addr, status, cliClosed, c2s, s2c,
                   peerClosed, acceptorVars>>

\* a loop that polls once more than the ceiling allows
LoopAgainOnceMore(r) == r <= MaxRetries

\* the loop condition that follows retries++
LoopAgain(r) == r < MaxRetries

\* case <-time.After(1 * time.Second): retries++, then the loop condition; leaving
\* the loop with stream == nil returns the timeout error
DialTick ==
    /\ dpc = "wait"
    /\ retries' = retries + 1
    /\ IF LoopAgain(retries')
       THEN dpc' = "check" /\ dres' = dres
       ELSE dpc' = "done" /\ dres' = "timeout"
    /\ UNCHANGED <<restVars, clientVars, ctxDone, addr, status, streamVars, acceptorVars>>

\* case <-ctx.Done(): return nil, ctx.Err()
DialCancelled ==
    /\ dpc = "wait"
    /\ ctxDone
    /\ dpc' = "done"
    /\ dres' = "cancelled"
    /\ UNCHANGED <<restVars, clientVars, retries, ctxDone, addr, status, streamVars, acceptorVars>>

\* the caller cancels the context of the call
CtxCancel ==
    /\ dpc \in {"check", "wait"}
    /\ ~ctxDone
    /\ ctxDone' = TRUE
    /\ UNCHANGED <<restVars, clientVars, dpc, retries, dres, addr, status, streamVars, acceptorVars>>

\* stream.Write(header); on error stream.Close() and return the error
DialWrite ==
    /\ dpc = "write"
    /\ IF CliWritable
       THEN /\ c2s' = c2s \o Header(addr)
            /\ dpc' = "read"
            /\ UNCHANGED <<dres, cliClosed>>
       ELSE /\ cliClosed' = TRUE
            /\ dpc' = "done"
            /\ dres' = "writefail"
            /\ c2s' = c2s
    /\ UNCHANGED <<restVars, clientVars, retries, ctxDone, addr, status, stream, streamSess, s2c,
                   peerClosed, acceptorVars>>

\* a test that takes only 0x01 for a failure
StatusOkUnlessOne(b) == b # 1

\* the test on the status byte: does the call return the stream
StatusOk(b) == b = 0

\* io.ReadFull(stream, status); status[0] != 0x00 closes the stream
DialRead ==
    /\ dpc = "read"
    /\ \/ /\ s2c # <<>>
          /\ status' = Head(s2c)
          /\ s2c' = Tail(s2c)
          /\ IF StatusOk(status')
             THEN dres' = "ok" /\ cliClosed' = cliClosed
             ELSE dres' = "remotefail" /\ cliClosed' = TRUE
       \/ /\ CliReadEnded
          /\ dres' = "readfail"
          /\ cliClosed' = TRUE
          /\ UNCHANGED <<status, s2c>>
    /\ dpc' = "done"
    /\ UNCHANGED <<restVars, clientVars, retries, ctxDone, addr, stream, streamSess, c2s,
                   peerClosed, acceptorVars>>

Dial == DialStart \/ DialCheck \/ DialTick \/ DialCancelled \/ CtxCancel \/ DialWrite \/ DialRead

\* --------------------------------------- an arbitrary far end of the stream

\* how many bytes the arbitrary peer leaves unread on the stream
MaxPeerBytes == 1

\* the far end writes a byte to the stream
PeerWrite(b) ==
    /\ stream = "open"
    /\ ~peerClosed
    /\ Len(s2c) < MaxPeerBytes
    /\ s2c' = Append(s2c, b)
    /\ UNCHANGED <<restVars, clientVars, dialVars, stream, streamSess, cliClosed, c2s, peerClosed,
                   acceptorVars>>

\* the far end closes the stream
PeerClose ==
    /\ stream = "open"
    /\ ~peerClosed
    /\ peerClosed' = TRUE
    /\ UNCHANGED <<restVars, clientVars, dialVars, stream, streamSess, cliClosed, c2s, s2c,
                   acceptorVars>>

Peer == (\E b \in PeerStatusBytes : PeerWrite(b)) \/ PeerClose

\* ------------------------------------------------ Acceptor: handleStream

\* number of payload bytes each side of a relay pair sends
PayloadLen == 2

\* the bytes the user of the stream sends to the target
UpPayload == [i \in 1..PayloadLen |-> 10 + i]

\* the bytes the target sends back
DownPayload == [i \in 1..PayloadLen |-> 20 + i]

\* done := make(chan struct{}, 2)
DoneCap == 2

\* the far end of the Acceptor's stream ended: the Initiator's side closed it,
\* or the Acceptor's session died
SrvStreamEnded == cliClosed \/ userClosed \/ srvSess = "closed"

\* a write on the Acceptor's end succeeds unless it closed the stream itself or
\* its session died
SrvWritable == srvSess = "open" /\ ~srvClosed

\* the smaller of two lengths
MinLen(a, b) == IF a < b THEN a ELSE b

\* net.DialTimeout("tcp", target, 10s): an empty address cannot be dialed
DialOutcomes(t) == IF t = <<>> THEN {"fail"} ELSE {"ok", "fail"}

\* session.Accept() yields the stream; go s.handleStream(stream)
SrvAccept ==
    /\ spc = "idle"
    /\ stream = "open"
    /\ srvSess = "open"
    /\ spc' = "readlen"
    /\ UNCHANGED <<restVars, clientVars, dialVars, streamVars, userVars, srvSess, addrLen, target,
                   dialRes, consumed, srvWrote, srvClosed, connVars, relayVars>>

\* io.ReadFull(stream, lenBuf); on error return (defer stream.Close())
SrvReadLen ==
    /\ spc = "readlen"
    /\ \/ /\ c2s # <<>>
          /\ addrLen' = Head(c2s)
          /\ c2s' = Tail(c2s)
          /\ consumed' = consumed + 1
          /\ spc' = "readaddr"
          /\ UNCHANGED srvClosed
       \/ /\ c2s = <<>>
          /\ SrvStreamEnded
          /\ spc' = "done"
          /\ srvClosed' = TRUE
          /\ UNCHANGED <<addrLen, c2s, consumed>>
    /\ UNCHANGED <<restVars, clientVars, dialVars, stream, streamSess, cliClosed, s2c, peerClosed,
                   userVars, srvSess, target, dialRes, srvWrote, connVars, relayVars>>

\* a read of the address that ignores io.ReadFull's error and goes on to the
\* dial with what it got
SrvReadAddrIgnoreErr ==
    /\ spc = "readaddr"
    /\ \/ Len(c2s) >= addrLen
       \/ Len(c2s) < addrLen /\ SrvStreamEnded
    /\ target' = SubSeq(c2s, 1, MinLen(addrLen, Len(c2s)))
    /\ c2s' = SubSeq(c2s, MinLen(addrLen, Len(c2s)) + 1, Len(c2s))
    /\ consumed' = consumed + MinLen(addrLen, Len(c2s))
    /\ spc' = "dial"
    /\ UNCHANGED srvClosed
    /\ UNCHANGED <<restVars, clientVars, dialVars, stream, streamSess, cliClosed, s2c, peerClosed,
                   userVars, srvSess, addrLen, dialRes, srvWrote, connVars, relayVars>>

\* addrBuf := make([]byte, addrLen); io.ReadFull(stream, addrBuf), which reads
\* nothing and succeeds for addrLen = 0; target := string(addrBuf)
SrvReadAddr ==
    /\ spc = "readaddr"
    /\ \/ /\ Len(c2s) >= addrLen
          /\ target' = SubSeq(c2s, 1, addrLen)
          /\ c2s' = SubSeq(c2s, addrLen + 1, Len(c2s))
          /\ consumed' = consumed + addrLen
          /\ spc' = "dial"
          /\ UNCHANGED srvClosed
       \/ /\ Len(c2s) < addrLen
          /\ SrvStreamEnded
          /\ consumed' = consumed + Len(c2s)
          /\ c2s' = <<>>
          /\ spc' = "done"
          /\ srvClosed' = TRUE
          /\ UNCHANGED target
    /\ UNCHANGED <<restVars, clientVars, dialVars, stream, streamSess, cliClosed, s2c, peerClosed,
                   userVars, srvSess, addrLen, dialRes, srvWrote, connVars, relayVars>>

\* a dial that starts the two copy loops before the status is written
SrvDialThenRelay ==
    /\ spc = "dial"
    /\ \E r \in DialOutcomes(target) :
          /\ dialRes' = r
          /\ conn' = IF r = "ok" THEN "open" ELSE conn
          /\ upc' = IF r = "ok" THEN "read" ELSE upc
          /\ dnpc' = IF r = "ok" THEN "read" ELSE dnpc
    /\ spc' = "status"
    /\ UNCHANGED <<restVars, clientVars, dialVars, streamVars, userVars, srvSess, addrLen, target,
                   consumed, srvWrote, srvClosed, connIn, targetSent, targetEOF, connOut,
                   toStream, preloaded, ubuf, dbuf, done>>

\* conn, err := net.DialTimeout("tcp", target, 10*time.Second)
SrvDial ==
    /\ spc = "dial"
    /\ \E r \in DialOutcomes(target) :
          /\ dialRes' = r
          /\ conn' = IF r = "ok" THEN "open" ELSE conn
    /\ spc' = "status"
    /\ UNCHANGED <<restVars, clientVars, dialVars, streamVars, userVars, srvSess, addrLen, target,
                   consumed, srvWrote, srvClosed, connIn, targetSent, targetEOF, connOut,
                   toStream, preloaded, relayVars>>

\* a failure branch without its return: the status is written and the handler
\* goes on to the relay
SrvStatusFailNoReturn ==
    /\ spc = "status"
    /\ dialRes = "fail"
    /\ srvWrote' = Append(srvWrote, 1)
    /\ s2c' = IF SrvWritable THEN Append(s2c, 1) ELSE s2c
    /\ spc' = "spawn"
    /\ UNCHANGED <<restVars, clientVars, dialVars, stream, streamSess, cliClosed, c2s, peerClosed,
                   userVars, srvSess, addrLen, target, dialRes, consumed, srvClosed,
                   connVars, relayVars>>

\* if err != nil { stream.Write([]byte{0x01}); return } (defer stream.Close())
SrvStatusFail ==
    /\ spc = "status"
    /\ dialRes = "fail"
    /\ srvWrote' = Append(srvWrote, 1)
    /\ s2c' = IF SrvWritable THEN Append(s2c, 1) ELSE s2c
    /\ srvClosed' = TRUE
    /\ spc' = "done"
    /\ UNCHANGED <<restVars, clientVars, dialVars, stream, streamSess, cliClosed, c2s, peerClosed,
                   userVars, srvSess, addrLen, target, dialRes, consumed, connVars,
                   relayVars>>

\* stream.Write([]byte{0x00})
SrvStatusOk ==
    /\ spc = "status"
    /\ dialRes = "ok"
    /\ srvWrote' = Append(srvWrote, 0)
    /\ s2c' = IF SrvWritable THEN Append(s2c, 0) ELSE s2c
    /\ spc' = "spawn"
    /\ UNCHANGED <<restVars, clientVars, dialVars, stream, streamSess, cliClosed, c2s, peerClosed,
                   userVars, srvSess, addrLen, target, dialRes, consumed, srvClosed,
                   connVars, relayVars>>

\* done := make(chan struct{}, 2); go func() {...}(); go func() {...}()
SrvSpawn ==
    /\ spc = "spawn"
    /\ upc' = "read"
    /\ dnpc' = "read"
    /\ spc' = "waitdone"
    /\ preloaded' = (/\ userSent = PayloadLen /\ userClosed
                     /\ targetSent = PayloadLen /\ targetEOF)
    /\ UNCHANGED <<restVars, clientVars, dialVars, streamVars, userVars, serverVarsButPc, conn,
                   connIn, targetSent, targetEOF, connOut, toStream, ubuf, dbuf, done>>

\* a return that closes neither the connection nor the stream
SrvWaitDoneNoClose ==
    /\ spc = "waitdone"
    /\ done > 0
    /\ done' = done - 1
    /\ spc' = "done"
    /\ UNCHANGED <<restVars, clientVars, dialVars, streamVars, userVars, serverVarsButPc, connVars,
                   upc, ubuf, dnpc, dbuf>>

\* <-done; return: the deferred conn.Close() and stream.Close() run
SrvWaitDone ==
    /\ spc = "waitdone"
    /\ done > 0
    /\ done' = done - 1
    /\ conn' = "closed"
    /\ srvClosed' = TRUE
    /\ spc' = "done"
    /\ UNCHANGED <<restVars, clientVars, dialVars, streamVars, userVars, srvSess, addrLen, target,
                   dialRes, consumed, srvWrote, connIn, targetSent, targetEOF, connOut,
                   toStream, preloaded, upc, ubuf, dnpc, dbuf>>

Server ==
    \/ SrvAccept \/ SrvReadLen \/ SrvReadAddr \/ SrvDial
    \/ SrvStatusFail \/ SrvStatusOk \/ SrvSpawn \/ SrvWaitDone

\* ------------------------------------------------------------ the relay

\* io.Copy(conn, stream): stream.Read returns what is buffered; with nothing
\* buffered it ends once the stream is closed at either end or the session died
UpRead ==
    /\ upc = "read"
    /\ \/ /\ c2s # <<>>
          /\ ubuf' = c2s
          /\ c2s' = <<>>
          /\ upc' = "write"
       \/ /\ c2s = <<>>
          /\ (SrvStreamEnded \/ srvClosed)
          /\ upc' = "send"
          /\ UNCHANGED <<ubuf, c2s>>
    /\ UNCHANGED <<restVars, clientVars, dialVars, stream, streamSess, cliClosed, s2c, peerClosed,
                   userVars, serverVars, connVars, dnpc, dbuf, done>>

\* io.Copy(conn, stream): conn.Write fails on a closed connection
UpWrite ==
    /\ upc = "write"
    /\ IF conn = "open"
       THEN connOut' = connOut \o ubuf /\ upc' = "read"
       ELSE connOut' = connOut /\ upc' = "send"
    /\ ubuf' = <<>>
    /\ UNCHANGED <<restVars, clientVars, dialVars, streamVars, userVars, serverVars, conn, connIn,
                   targetSent, targetEOF, toStream, preloaded, dnpc, dbuf, done>>

\* done <- struct{}{}
UpSend ==
    /\ upc = "send"
    /\ done < DoneCap
    /\ done' = done + 1
    /\ upc' = "exit"
    /\ UNCHANGED <<restVars, clientVars, dialVars, streamVars, userVars, serverVars, connVars,
                   ubuf, dnpc, dbuf>>

\* io.Copy(stream, conn): conn.Read returns what arrived, fails once the
\* connection is closed, and ends at the target's end-of-input
DnRead ==
    /\ dnpc = "read"
    /\ \/ /\ conn = "open"
          /\ connIn # <<>>
          /\ dbuf' = connIn
          /\ connIn' = <<>>
          /\ dnpc' = "write"
       \/ /\ (conn = "closed" \/ (connIn = <<>> /\ targetEOF))
          /\ dnpc' = "send"
          /\ UNCHANGED <<dbuf, connIn>>
    /\ UNCHANGED <<restVars, clientVars, dialVars, streamVars, userVars, serverVars, conn,
                   targetSent, targetEOF, connOut, toStream, preloaded, upc, ubuf, done>>

\* io.Copy(stream, conn): stream.Write
DnWrite ==
    /\ dnpc = "write"
    /\ IF SrvWritable
       THEN s2c' = s2c \o dbuf /\ toStream' = toStream \o dbuf /\ dnpc' = "read"
       ELSE s2c' = s2c /\ toStream' = toStream /\ dnpc' = "send"
    /\ dbuf' = <<>>
    /\ UNCHANGED <<restVars, clientVars, dialVars, stream, streamSess, cliClosed, c2s, peerClosed,
                   userVars, serverVars, conn, connIn, targetSent, targetEOF, connOut,
                   preloaded, upc, ubuf, done>>

\* done <- struct{}{}
DnSend ==
    /\ dnpc = "send"
    /\ done < DoneCap
    /\ done' = done + 1
    /\ dnpc' = "exit"
    /\ UNCHANGED <<restVars, clientVars, dialVars, streamVars, userVars, serverVars, connVars,
                   upc, ubuf, dbuf>>

Relay == UpRead \/ UpWrite \/ UpSend \/ DnRead \/ DnWrite \/ DnSend

\* ------------------------------------- the two ends outside the repository

\* the user of the returned stream writes the next k payload bytes
UserWrite(k) ==
    /\ dpc = "done"
    /\ dres = "ok"
    /\ ~userClosed
    /\ CliWritable
    /\ userSent + k <= PayloadLen
    /\ c2s' = c2s \o SubSeq(UpPayload, userSent + 1, userSent + k)
    /\ userSent' = userSent + k
    /\ UNCHANGED <<restVars, clientVars, dialVars, stream, streamSess, cliClosed, s2c, peerClosed,
                   userClosed, serverVars, connVars, relayVars>>

\* the user closes the stream: the Acceptor reads end-of-input after the
\* buffered bytes
UserClose ==
    /\ dpc = "done"
    /\ dres = "ok"
    /\ ~userClosed
    /\ userClosed' = TRUE
    /\ UNCHANGED <<restVars, clientVars, dialVars, streamVars, userSent, serverVars, connVars,
                   relayVars>>

\* the target sends the next k bytes on the dialed connection
TargetSend(k) ==
    /\ conn = "open"
    /\ ~targetEOF
    /\ targetSent + k <= PayloadLen
    /\ connIn' = connIn \o SubSeq(DownPayload, targetSent + 1, targetSent + k)
    /\ targetSent' = targetSent + k
    /\ UNCHANGED <<restVars, clientVars, dialVars, streamVars, userVars, serverVars, conn,
                   targetEOF, connOut, toStream, preloaded, relayVars>>

\* the target finishes sending
TargetClose ==
    /\ conn = "open"
    /\ ~targetEOF
    /\ targetEOF' = TRUE
    /\ UNCHANGED <<restVars, clientVars, dialVars, streamVars, userVars, serverVars, conn, connIn,
                   targetSent, connOut, toStream, preloaded, relayVars>>

\* the Acceptor's websocket ends and its session with it
SrvSessDrop ==
    /\ srvSess = "open"
    /\ stream = "open"
    /\ srvSess' = "closed"
    /\ UNCHANGED <<restVars, clientVars, dialVars, streamVars, userVars, spc, addrLen, target,
                   dialRes, consumed, srvWrote, srvClosed, connVars, relayVars>>

\* the longest part of the bytes in flight that a failing websocket delivers
MaxCut == 2

\* the Acceptor's websocket fails while bytes of the stream are in flight: the
\* first n of them have reached the Acceptor's end of the stream, the rest is
\* lost with the session
SrvSessCut(n) ==
    /\ srvSess = "open"
    /\ stream = "open"
    /\ n < Len(c2s)
    /\ c2s' = SubSeq(c2s, 1, n)
    /\ srvSess' = "closed"
    /\ UNCHANGED <<restVars, clientVars, dialVars, stream, streamSess, cliClosed, s2c, peerClosed,
                   userVars, spc, addrLen, target, dialRes, consumed, srvWrote, srvClosed,
                   connVars, relayVars>>

Ends ==
    \/ \E k \in 1..PayloadLen : UserWrite(k)
    \/ UserClose
    \/ \E k \in 1..PayloadLen : TargetSend(k)
    \/ TargetClose
    \/ SrvSessDrop
    \/ \E n \in 0..MaxCut : SrvSessCut(n)
    \/ \E ch \in Chans : WsDrop(ch) \/ SessClose(ch)

\* ------------------------------------------------------------ SpecClient

\* the addr argument in SpecClient
ClientAddrs == {<<104, 58, 56>>}

InitClientVars ==
    /\ muxSession = Nil
    /\ wsConn = Nil
    /\ muxMu = "free"
    /\ ws = [ch \in Chans |-> "none"]
    /\ session = [ch \in Chans |-> "none"]
    /\ hpc = [ch \in Chans |-> "idle"]
    /\ superseded = [ch \in Chans |-> Nil]

InitDialVars ==
    /\ dpc = "idle"
    /\ retries = 0
    /\ ctxDone = FALSE
    /\ dres = "none"
    /\ status = NoStatus

InitStreamVars ==
    /\ stream = "none"
    /\ streamSess = Nil
    /\ cliClosed = FALSE
    /\ c2s = <<>>
    /\ s2c = <<>>
    /\ peerClosed = FALSE

InitAcceptorVars ==
    /\ userSent = 0
    /\ userClosed = FALSE
    /\ srvSess = "open"
    /\ spc = "idle"
    /\ addrLen = 0
    /\ target = <<>>
    /\ dialRes = "none"
    /\ consumed = 0
    /\ srvWrote = <<>>
    /\ srvClosed = FALSE
    /\ conn = "none"
    /\ connIn = <<>>
    /\ targetSent = 0
    /\ targetEOF = FALSE
    /\ connOut = <<>>
    /\ toStream = <<>>
    /\ preloaded = FALSE
    /\ upc = "idle"
    /\ ubuf = <<>>
    /\ dnpc = "idle"
    /\ dbuf = <<>>
    /\ done = 0

\* Client.Stop has not been called
InitStopVars ==
    /\ stpc = "idle"
    /\ cCtxDone = FALSE

\* no other dialThroughTunnel call is running
InitCallerIdle == qpc = "idle"

\* a wsAdapter nobody has read from or written to
InitAdapterIdle ==
    /\ aLens = <<>>
    /\ aArrived = 0
    /\ aFetched = 0
    /\ aReader = [has |-> FALSE, rem |-> <<>>]
    /\ aChan = "open"
    /\ aOut = <<>>
    /\ aLast = [n |-> 0, err |-> "none", got |-> <<>>, msg |-> 0,
                fetched |-> FALSE, had |-> FALSE, atEnd |-> FALSE]
    /\ wpc = [w \in Writers |-> "idle"]
    /\ aSent = <<>>
    /\ wLast = [w \in Writers |-> [n |-> 0, err |-> "none"]]

\* an Acceptor no websocket has reached
InitEndpointIdle ==
    /\ sws = [ch \in Chans |-> "none"]
    /\ ssess = [ch \in Chans |-> "none"]
    /\ shpc = [ch \in Chans |-> "idle"]
    /\ sstrm = [ch \in Chans |-> [s \in StreamIds |-> "none"]]
    /\ sconn = [ch \in Chans |-> [s \in StreamIds |-> "none"]]

InitClient ==
    /\ InitClientVars
    /\ InitStopVars
    /\ InitCallerIdle
    /\ InitAdapterIdle
    /\ InitEndpointIdle
    /\ InitDialVars
    /\ addr \in ClientAddrs
    /\ InitStreamVars
    /\ InitAcceptorVars

NextClient == Handlers \/ Dial \/ Peer

SpecClient == InitClient /\ [][NextClient]_vars

\* ------------------------------------------------- claims under SpecClient

\* C1: when channel b attaches while the session over channel a is current,
\* the attach closes channel a, and once a's close handling has also run the
\* current-session slot holds b's session for as long as b's session is open
\* (and no later channel has attached over b).
C1_SupersedeKeepsNewSession ==
    \A a, b \in Chans :
        (a # b /\ superseded[b] = a /\ hpc[b] = "wait")
            => /\ ws[a] = "closed"
               /\ (/\ hpc[a] = "done"
                   /\ session[b] = "open"
                   /\ \A c \in Chans : superseded[c] # b)
                      => muxSession = b

\* C2: the close handling of session ch, run when the slot refers to another
\* session (or to none), leaves muxSession and wsConn as they are.
C2_StaleCloseIsNoOp ==
    [][\A ch \in Chans :
          (hpc[ch] = "clear" /\ hpc'[ch] = "done" /\ muxSession # ch)
              => (muxSession' = muxSession /\ wsConn' = wsConn)]_vars

\* C3: a call that is not cancelled never gives up with the timeout error at a
\* moment when a session is published in the slot and open, whichever wait the
\* session attached in.
C3_AttachBeforeCeilingSucceeds ==
    [][(dpc = "wait" /\ dres' = "timeout" /\ ~ctxDone)
          => ~(muxSession # Nil /\ session[muxSession] = "open")]_vars

\* C4: the slot is checked at most MaxRetries times, one check per tick; the
\* timeout error comes after exactly MaxRetries checks that found no session
\* and with no stream opened; cancellation ends the call during a wait, before
\* the ceiling, with no stream opened; a wait always ends with its tick.
C4_PollBounded ==
    /\ retries <= MaxRetries
    /\ dpc = "check" => retries < MaxRetries
    /\ dpc = "wait" => (retries < MaxRetries /\ ENABLED DialTick)
    /\ (dpc = "wait" /\ ctxDone) => ENABLED DialCancelled
    /\ retries = MaxRetries => (dpc = "done" /\ dres = "timeout")
    /\ dres = "timeout" => (retries = MaxRetries /\ stream = "none" /\ c2s = <<>>)
    /\ dres = "cancelled" => (retries < MaxRetries /\ ctxDone /\ stream = "none" /\ c2s = <<>>)

\* C4 happens: the call has given up after the last tick
C4_Witness == dpc = "done" /\ dres = "timeout" /\ retries = MaxRetries /\ ~ctxDone

\* C8: once a stream was obtained, the call ends in one of two ways: it returns
\* the stream, not closed, and the status byte read was 0; or it returns an
\* error and has closed the stream.
C8_StreamReturnedOrClosed ==
    (stream = "open" /\ dpc = "done")
        => \/ dres = "ok" /\ status = 0 /\ ~cliClosed
           \/ dres \in {"writefail", "readfail", "remotefail"} /\ cliClosed

\* C8 happens: a status byte that is neither 0x00 nor 0x01 ended the call
C8_Witness == dpc = "done" /\ dres = "remotefail" /\ status = 2 /\ cliClosed

\* C20: the pass of the loop that finds a session and gets no stream from
\* Open ends the call there with the open error, on any attempt: the counter
\* is not advanced, no tick is awaited, nothing is written; and that outcome
\* is final.
C20_OpenErrorReturnedAtOnce ==
    [][/\ (dpc = "check" /\ dpc' # "check" /\ muxSession # Nil /\ stream' = "none")
             => (dpc' = "done" /\ dres' = "openfail" /\ retries' = retries)
       /\ dres' = "openfail"
             => (dpc' = "done" /\ stream' = "none" /\ c2s' = <<>> /\ retries' < MaxRetries)
       /\ dres = "openfail" => (dres' = "openfail" /\ retries' = retries)]_vars

\* C20 happens: Open failed after several polls found no session
C20_Witness == dpc = "done" /\ dres = "openfail" /\ retries > 1 /\ ~ctxDone

\* ------------------------------------------------------------ SpecTunnel

\* longest of the short addresses
MaxShortAddr == 2

\* the bytes short addresses are made of
AddrBytes == {97, 98}

\* an address of n bytes
LongAddr(n) == [i \in 1..n |-> 1 + (i % 7)]

\* all short addresses
RECURSIVE ShortAddrs(_)
ShortAddrs(n) ==
    IF n = 0 THEN {<<>>}
    ELSE LET s == ShortAddrs(n - 1)
         IN  s \cup {Append(a, b) : a \in {x \in s : Len(x) = n - 1}, b \in AddrBytes}

\* the addr argument in SpecTunnel: short addresses and the lengths around
\* the largest value of the length byte
TunnelAddrs ==
    ShortAddrs(MaxShortAddr)
        \cup {LongAddr(ByteMod - 1), LongAddr(ByteMod), LongAddr(ByteMod + 1)}

\* the session over channel A is attached and current: the state SpecClient
\* is in after HUpgrade, HAttachBegin and HAttachPublish of channel A
InitAttached ==
    /\ muxSession = "A"
    /\ wsConn = "A"
    /\ muxMu = "free"
    /\ ws = [ch \in Chans |-> IF ch = "A" THEN "open" ELSE "none"]
    /\ session = [ch \in Chans |-> IF ch = "A" THEN "open" ELSE "none"]
    /\ hpc = [ch \in Chans |-> IF ch = "A" THEN "wait" ELSE "idle"]
    /\ superseded = [ch \in Chans |-> Nil]
    /\ InitDialVars
    /\ InitStreamVars
    /\ InitAcceptorVars
    /\ InitStopVars
    /\ InitCallerIdle
    /\ InitAdapterIdle
    /\ InitEndpointIdle

InitTunnel == InitAttached /\ addr \in TunnelAddrs

NextTunnel ==
    \/ DialStart \/ DialCheck \/ DialWrite \/ DialRead
    \/ Server
    \/ Relay
    \/ Ends

SpecTunnel == InitTunnel /\ [][NextTunnel]_vars

\* C14: nothing of the exchange happens before the Initiator has written the
\* request; the Initiator reads the status only after writing the whole
\* request; handleStream writes a status only after it has read the length
\* byte and the address it announces (the whole request, for an address a
\* length byte can count) and after the dial returned; it writes at most one
\* status byte, 0x00 exactly for a dial that succeeded; the copy loops run and
\* relayed bytes exist only after 0x00 was written; the byte the Initiator
\* reads as status is the status handleStream wrote, never a target's byte.
C14_ControlExchangeSequential ==
    /\ dpc \in {"idle", "check", "write"}
          => (consumed = 0 /\ srvWrote = <<>> /\ status = NoStatus /\ dialRes = "none")
    /\ (dpc = "read" /\ consumed = 0 /\ cliClosed = FALSE /\ srvSess = "open")
          => c2s = Header(addr)
    /\ srvWrote # <<>>
          => /\ dialRes # "none"
             /\ consumed = 1 + addrLen
             /\ Len(target) = addrLen
             /\ Len(addr) < ByteMod => target = addr
             /\ srvWrote = (IF dialRes = "ok" THEN <<0>> ELSE <<1>>)
    /\ spc \in {"spawn", "waitdone"} => srvWrote = <<0>>
    /\ (upc # "idle" \/ dnpc # "idle" \/ toStream # <<>> \/ connOut # <<>>) => srvWrote = <<0>>
    /\ (status = NoStatus /\ s2c # <<>>) => <<Head(s2c)>> = srvWrote
    /\ status # NoStatus => <<status>> = srvWrote
    /\ userSent > 0 => status = 0

\* C14 happens: the exchange ended with status 0x00 and bytes have been
\* relayed in both directions
C14_Witness ==
    /\ dres = "ok"
    /\ status = 0
    /\ connOut # <<>>
    /\ toStream # <<>>
    /\ Len(addr) > 0

\* C15: a handleStream call that returned before it had read the length byte
\* and the whole address the length byte announces has dialed nothing, has
\* written no status byte and has closed the stream; and when the stream has
\* ended with fewer bytes than awaited, the read returns instead of waiting.
C15_ShortRequestNoDialNoStatus ==
    /\ (spc = "done" /\ consumed < 1 + addrLen)
          => /\ dialRes = "none" /\ conn = "none" /\ target = <<>>
             /\ srvWrote = <<>> /\ s2c = <<>>
             /\ srvClosed
    /\ (spc = "readlen" /\ c2s = <<>> /\ SrvStreamEnded) => ENABLED SrvReadLen
    /\ (spc = "readaddr" /\ Len(c2s) < addrLen /\ SrvStreamEnded) => ENABLED SrvReadAddr

\* C15 happens: handleStream has returned after the length byte and a part
\* of the address
C15_Witness ==
    /\ spc = "done"
    /\ consumed > 1
    /\ consumed < 1 + addrLen
    /\ srvClosed

\* ------------------------------------------------------------- SpecRelay

\* the addr argument in SpecRelay
RelayAddrs == {<<97>>}

InitRelay == InitAttached /\ addr \in RelayAddrs

SpecRelay == InitRelay /\ [][NextTunnel]_vars

\* a goroutine that can take a step takes it; so does handleStream at <-done
FairRelay ==
    /\ SpecRelay
    /\ WF_vars(SrvWaitDone)
    /\ WF_vars(UpRead) /\ WF_vars(UpWrite) /\ WF_vars(UpSend)
    /\ WF_vars(DnRead) /\ WF_vars(DnWrite) /\ WF_vars(DnSend)

\* -------------------------------------------------- claims under FairRelay

\* a copy loop has finished
UpFinished == upc \in {"send", "exit"}
DnFinished == dnpc \in {"send", "exit"}

\* C5: once either copy loop has finished, the stream and the connection get
\* closed and both relay goroutines exit; a finished loop's send on done is
\* never blocked.
C5_FirstCompletionEndsPair ==
    /\ [](/\ done <= DoneCap
          /\ upc = "send" => ENABLED UpSend
          /\ dnpc = "send" => ENABLED DnSend)
    /\ (UpFinished \/ DnFinished)
          ~> (conn = "closed" /\ srvClosed /\ upc = "exit" /\ dnpc = "exit" /\ spc = "done")

\* C5 happens: the pair ended while the far ends never ended the stream, so
\* the second loop ended by the close alone
C5_Witness ==
    /\ spc = "done" /\ upc = "exit" /\ dnpc = "exit" /\ conn = "closed" /\ srvClosed
    /\ ~userClosed /\ ~cliClosed /\ srvSess = "open" /\ targetEOF

\* C6: a relay pair whose two inputs were complete (PayloadLen bytes and
\* end-of-input on each side) when the relay started, and whose sessions stayed
\* up, has delivered every byte to each destination, in order, when it ends.
C6_AllBytesDelivered ==
    (/\ preloaded
     /\ spc = "done" /\ upc = "exit" /\ dnpc = "exit"
     /\ srvSess = "open" /\ session[streamSess] = "open" /\ ws[streamSess] = "open")
        => (connOut = UpPayload /\ toStream = DownPayload)

\* ------------------------------------------------- claims under SpecTunnel

\* C7: when the dial fails the Acceptor writes the single byte 0x01, closes the
\* stream, writes nothing else to it and starts no relay loop.
C7_DialFailureStatus ==
    dialRes = "fail"
        => /\ spc \in {"status", "done"}
           /\ spc = "status" => (srvWrote = <<>> /\ s2c = <<>> /\ ~srvClosed)
           /\ spc = "done" => (srvWrote = <<1>> /\ s2c \in {<<>>, <<1>>} /\ srvClosed)
           /\ upc = "idle" /\ dnpc = "idle"
           /\ toStream = <<>> /\ conn = "none"

\* C7 happens: the dial failed, the handler returned and the Initiator read 0x01
C7_Witness ==
    /\ dialRes = "fail" /\ spc = "done" /\ srvWrote = <<1>> /\ srvClosed
    /\ target # <<>> /\ status = 1

\* the Acceptor has read a whole Tunnel Request
Decoded == spc = "dial" \/ dialRes # "none"

\* C9: for an address of at most 255 bytes the Acceptor decodes the identical
\* address and has consumed 1 + length bytes of the stream; once the length
\* byte of an empty address is read the handler goes on to the dial.
C9_RequestRoundTrip ==
    Len(addr) < ByteMod
        => /\ Decoded => (target = addr /\ addrLen = Len(addr) /\ consumed = 1 + Len(addr))
           /\ (addr = <<>> /\ consumed > 0) => (spc = "readaddr" \/ Decoded)

\* C9 happens: an address of 255 bytes was decoded
C9_Witness == Len(addr) = ByteMod - 1 /\ spc = "dial" /\ target = addr

\* C10: for an address longer than 255 bytes nothing is written to the stream,
\* so the Acceptor reads nothing of it, dials nothing and relays nothing.
C10_LongAddressRejected ==
    Len(addr) >= ByteMod
        => /\ c2s = <<>> /\ consumed = 0
           /\ dialRes = "none" /\ conn = "none" /\ connOut = <<>>

\* ----------------------------------------------------- wsAdapter.Read

\* the sizes of the messages, of the sequences of messages and of the
\* caller's buffers
MaxMsgs == 3
MaxMsgLen == 2
MaxBuf == 3

\* the payload of the i-th message: its k-th byte is named <<i, k>>
Payload(i) == [k \in 1..aLens[i] |-> <<i, k>>]

\* the payloads of the messages from the i-th on, concatenated
RECURSIVE PayloadFrom(_)
PayloadFrom(i) ==
    IF i > Len(aLens) THEN <<>> ELSE Payload(i) \o PayloadFrom(i + 1)

\* all sequences of at most n message lengths
RECURSIVE MsgLens(_)
MsgLens(n) ==
    IF n = 0 THEN {<<>>}
    ELSE LET s == MsgLens(n - 1)
         IN  s \cup {Append(a, l) : a \in {x \in s : Len(x) = n - 1}, l \in 0..MaxMsgLen}

MinOf(a, b) == IF a < b THEN a ELSE b

\* messageReader.Read(b) with len(b) = size on a message whose unread rest is
\* rem: the possible results. At the end of the message it returns (0, io.EOF);
\* a connection that has failed can cut a message short.
ReaderRead(rem, size) ==
    IF rem = <<>>
    THEN {[n |-> 0, err |-> "EOF", rem |-> rem]}
    ELSE {[n |-> MinOf(size, Len(rem)), err |-> "none",
           rem |-> SubSeq(rem, MinOf(size, Len(rem)) + 1, Len(rem))]}
         \cup (IF aChan = "closed"
               THEN {[n |-> 0, err |-> "unexpectedEOF", rem |-> rem]}
               ELSE {})

\* if w.reader == nil: a fetch every call loses the unread rest
NeedFetchAlways(r) == TRUE
NeedFetch(r) == ~r.has

\* what Read returns when the message reader returned in, and whether the
\* cursor stays: passing io.EOF on ends the byte stream at a message end
AdapterReturnPassEOF(in) == [n |-> in.n, err |-> in.err, has |-> in.err # "EOF"]
AdapterReturn(in) ==
    IF in.err = "EOF"
    THEN [n |-> in.n, err |-> "none", has |-> FALSE]
    ELSE [n |-> in.n, err |-> in.err, has |-> TRUE]

\* wsAdapter.Read(b), len(b) = size, on a cursor that holds cur
ReadOn(cur, size, fetched, had) ==
    \E in \in ReaderRead(cur, size) :
        LET out == AdapterReturn(in)
        IN  /\ aReader' = [has |-> out.has, rem |-> IF out.has THEN in.rem ELSE <<>>]
            /\ aOut' = aOut \o SubSeq(cur, 1, out.n)
            /\ aLast' = [n |-> out.n, err |-> out.err, got |-> SubSeq(cur, 1, out.n),
                         msg |-> IF fetched THEN aFetched + 1 ELSE aFetched,
                         fetched |-> fetched, had |-> had, atEnd |-> in.err = "EOF"]

\* one call of wsAdapter.Read; it blocks in ws.NextReader while no message has
\* arrived and the channel is open
Read(size) ==
    /\ IF NeedFetch(aReader)
       THEN \/ /\ aFetched < aArrived
               /\ aFetched' = aFetched + 1
               /\ ReadOn(Payload(aFetched + 1), size, TRUE, aReader.has /\ aReader.rem # <<>>)
            \/ /\ aFetched = aArrived
               /\ aChan = "closed"
               /\ aLast' = [n |-> 0, err |-> "closed", got |-> <<>>, msg |-> aFetched,
                            fetched |-> FALSE, had |-> FALSE, atEnd |-> FALSE]
               /\ UNCHANGED <<aFetched, aReader, aOut>>
       ELSE /\ ReadOn(aReader.rem, size, FALSE, TRUE)
            /\ UNCHANGED aFetched
    /\ UNCHANGED <<aLens, aArrived, aChan, wpc, aSent, wLast>>
    /\ UNCHANGED <<clientVars, dialVars, streamVars, acceptorVars, stopVars, endpointVars, callerVars>>

\* the far end's next message arrives
AArrive ==
    /\ aChan = "open"
    /\ aArrived < Len(aLens)
    /\ aArrived' = aArrived + 1
    /\ UNCHANGED <<aLens, aFetched, aReader, aChan, aOut, aLast, wpc, aSent, wLast>>
    /\ UNCHANGED <<clientVars, dialVars, streamVars, acceptorVars, stopVars, endpointVars, callerVars>>

\* the channel fails or is closed
AChanEnd ==
    /\ aChan = "open"
    /\ aChan' = "closed"
    /\ UNCHANGED <<aLens, aArrived, aFetched, aReader, aOut, aLast, wpc, aSent, wLast>>
    /\ UNCHANGED <<clientVars, dialVars, streamVars, acceptorVars, stopVars, endpointVars, callerVars>>

\* ------------------------------------------------------------ SpecAdapter

InitAdapter ==
    /\ InitClientVars
    /\ InitDialVars
    /\ addr \in ClientAddrs
    /\ InitStreamVars
    /\ InitAcceptorVars
    /\ InitStopVars
    /\ InitCallerIdle
    /\ InitEndpointIdle
    /\ aLens \in MsgLens(MaxMsgs)
    /\ aArrived = 0
    /\ aFetched = 0
    /\ aReader = [has |-> FALSE, rem |-> <<>>]
    /\ aChan = "open"
    /\ aOut = <<>>
    /\ aLast = [n |-> 0, err |-> "none", got |-> <<>>, msg |-> 0,
                fetched |-> FALSE, had |-> FALSE, atEnd |-> FALSE]
    /\ wpc = [w \in Writers |-> "idle"]
    /\ aSent = <<>>
    /\ wLast = [w \in Writers |-> [n |-> 0, err |-> "none"]]

NextAdapter ==
    \/ AArrive
    \/ AChanEnd
    \/ \E size \in 0..MaxBuf : Read(size)

SpecAdapter == InitAdapter /\ [][NextAdapter]_vars

\* ------------------------------------------------ claims under SpecAdapter

\* C11: no Read call returns end-of-stream; a call returns an error only when
\* the channel has failed or is closed; the call that finds the current
\* message exhausted clears the cursor and returns no bytes and no error.
C11_NoEndOfStreamAtMessageEnd ==
    /\ aLast.err # "EOF"
    /\ aLast.err # "none" => aChan = "closed"
    /\ aLast.atEnd => (aLast.err = "none" /\ aLast.n = 0 /\ ~aReader.has)

\* C11 happens: a Read call has met the end of an empty message, after
\* another message and with the channel open
C11_Witness ==
    /\ aLast.atEnd
    /\ aLast.msg > 1
    /\ aLens[aLast.msg] = 0
    /\ aChan = "open"

\* C12: the bytes returned so far, the unread rest of the current message and
\* the messages not yet fetched make up the messages' payloads in arrival
\* order; a call returns bytes of one message only; a call fetches a message
\* only when no bytes of the current one remain unread.
C12_ReadsAreThePayloads ==
    /\ aOut \o aReader.rem \o PayloadFrom(aFetched + 1) = PayloadFrom(1)
    /\ \A k \in 1..Len(aLast.got) : aLast.got[k][1] = aLast.msg
    /\ aLast.fetched => ~aLast.had
    /\ aReader.rem # <<>> => aReader.has

\* C12 happens: all of several messages has been read, one of them in more
\* than one call
C12_Witness ==
    /\ Len(aLens) > 1
    /\ aFetched = Len(aLens)
    /\ ~aReader.has
    /\ aOut = PayloadFrom(1)
    /\ aLast.atEnd
    /\ ~aLast.fetched
    /\ \E i \in 1..Len(aLens) : aLens[i] > 1

\* ---------------------------------------------------- wsAdapter.Write

\* the buffer task w's frame is written from
WBuf(w) == IF w = "w1" THEN <<"a", "b">> ELSE <<"c">>

\* ws.WriteMessage(websocket.BinaryMessage, b): the messages the channel is
\* given
WriteMessage(b) == <<b>>

\* what Write returns for the error ws.WriteMessage returned
WriteResult(err, b) ==
    IF err # "none" THEN [n |-> 0, err |-> err] ELSE [n |-> Len(b), err |-> "none"]

\* a task of the session (a stream's writer, the keepalive) hands a frame to
\* the session's send loop
WQueue(w) ==
    /\ wpc[w] = "idle"
    /\ wpc' = [wpc EXCEPT ![w] = "queued"]
    /\ UNCHANGED <<aLens, aArrived, aFetched, aReader, aChan, aOut, aLast, aSent, wLast>>
    /\ UNCHANGED <<clientVars, dialVars, streamVars, acceptorVars, stopVars, endpointVars, callerVars>>

\* every task calls Write itself
WriteCallByEachTask(w) ==
    /\ wpc[w] = "queued"
    /\ wpc' = [wpc EXCEPT ![w] = "inside"]
    /\ UNCHANGED <<aLens, aArrived, aFetched, aReader, aChan, aOut, aLast, aSent, wLast>>
    /\ UNCHANGED <<clientVars, dialVars, streamVars, acceptorVars, stopVars, endpointVars, callerVars>>
\* the session the adapter was handed to calls Write(WBuf(w)) from its send
\* loop, one goroutine, which is inside one call at a time; Write takes no
\* lock and enters ws.WriteMessage
WriteCall(w) ==
    /\ wpc[w] = "queued"
    /\ \A v \in Writers : wpc[v] # "inside"
    /\ wpc' = [wpc EXCEPT ![w] = "inside"]
    /\ UNCHANGED <<aLens, aArrived, aFetched, aReader, aChan, aOut, aLast, aSent, wLast>>
    /\ UNCHANGED <<clientVars, dialVars, streamVars, acceptorVars, stopVars, endpointVars, callerVars>>

\* ws.WriteMessage returns and Write with it
WriteReturn(w) ==
    /\ wpc[w] = "inside"
    /\ wpc' = [wpc EXCEPT ![w] = "done"]
    /\ IF aChan = "open"
       THEN /\ aSent' = aSent \o WriteMessage(WBuf(w))
            /\ wLast' = [wLast EXCEPT ![w] = WriteResult("none", WBuf(w))]
       ELSE /\ aSent' = aSent
            /\ wLast' = [wLast EXCEPT ![w] = WriteResult("closed", WBuf(w))]
    /\ UNCHANGED <<aLens, aArrived, aFetched, aReader, aChan, aOut, aLast>>
    /\ UNCHANGED <<clientVars, dialVars, streamVars, acceptorVars, stopVars, endpointVars, callerVars>>

\* ------------------------------------------------------------- SpecWriter

\* the messages the far end sends in SpecWriter
WriterMsgLens == {<<1, 1>>}

InitWriter ==
    /\ InitClientVars
    /\ InitDialVars
    /\ addr \in ClientAddrs
    /\ InitStreamVars
    /\ InitAcceptorVars
    /\ InitStopVars
    /\ InitCallerIdle
    /\ InitEndpointIdle
    /\ aLens \in WriterMsgLens
    /\ aArrived = 0
    /\ aFetched = 0
    /\ aReader = [has |-> FALSE, rem |-> <<>>]
    /\ aChan = "open"
    /\ aOut = <<>>
    /\ aLast = [n |-> 0, err |-> "none", got |-> <<>>, msg |-> 0,
                fetched |-> FALSE, had |-> FALSE, atEnd |-> FALSE]
    /\ wpc = [w \in Writers |-> "idle"]
    /\ aSent = <<>>
    /\ wLast = [w \in Writers |-> [n |-> 0, err |-> "none"]]

NextWriter ==
    \/ AArrive
    \/ AChanEnd
    \/ \E size \in 0..MaxBuf : Read(size)
    \/ \E w \in Writers : WQueue(w) \/ WriteCall(w) \/ WriteReturn(w)

SpecWriter == InitWriter /\ [][NextWriter]_vars

\* ------------------------------------------------- claims under SpecWriter

\* the tasks whose Write call has returned without error
Written == {w \in Writers : wpc[w] = "done" /\ wLast[w].err = "none"}

notEndpointVars == <<clientVars, dialVars, streamVars, acceptorVars, stopVars, adapterVars,
                     callerVars>>

\* a websocket reaches /ws: Upgrade, the adapter, yamux.Server; the handler
\* goes to its accept loop. Nothing is recorded outside the call's locals.
EAttach(ch) ==
    /\ shpc[ch] = "idle"
    /\ sws' = [sws EXCEPT ![ch] = "open"]
    /\ ssess' = [ssess EXCEPT ![ch] = "open"]
    /\ shpc' = [shpc EXCEPT ![ch] = "accept"]
    /\ UNCHANGED <<sstrm, sconn, notEndpointVars>>

\* the far end opens logical stream s on the session over ch
EOpen(ch, s) ==
    /\ ssess[ch] = "open"
    /\ sstrm[ch][s] = "none"
    /\ sstrm' = [sstrm EXCEPT ![ch][s] = "syn"]
    /\ UNCHANGED <<sws, ssess, shpc, sconn, notEndpointVars>>

\* session.Accept() returns stream s; go s.handleStream(stream)
EAccept(ch, s) ==
    /\ shpc[ch] = "accept"
    /\ ssess[ch] = "open"
    /\ sstrm[ch][s] = "syn"
    /\ sstrm' = [sstrm EXCEPT ![ch][s] = "request"]
    /\ UNCHANGED <<sws, ssess, shpc, sconn, notEndpointVars>>

\* the websocket under the session fails or the far end closes the session
ESessEnd(ch) ==
    /\ ssess[ch] = "open"
    /\ ssess' = [ssess EXCEPT ![ch] = "closed"]
    /\ UNCHANGED <<sws, shpc, sstrm, sconn, notEndpointVars>>

\* session.Accept() returns an error: return, with the deferred
\* session.Close() and ws.Close()
EAcceptErr(ch) ==
    /\ shpc[ch] = "accept"
    /\ ssess[ch] = "closed"
    /\ shpc' = [shpc EXCEPT ![ch] = "done"]
    /\ sws' = [sws EXCEPT ![ch] = "closed"]
    /\ UNCHANGED <<ssess, sstrm, sconn, notEndpointVars>>

\* handleStream has read the whole request
EReqOk(ch, s) ==
    /\ sstrm[ch][s] = "request"
    /\ ssess[ch] = "open"
    /\ sstrm' = [sstrm EXCEPT ![ch][s] = "dial"]
    /\ UNCHANGED <<sws, ssess, shpc, sconn, notEndpointVars>>

\* a failure on the stream that also ends the session it belongs to
EReqFailEndsSession(ch, s) ==
    /\ sstrm[ch][s] = "request"
    /\ sstrm' = [sstrm EXCEPT ![ch][s] = "closed"]
    /\ ssess' = [ssess EXCEPT ![ch] = "closed"]
    /\ UNCHANGED <<sws, shpc, sconn, notEndpointVars>>
\* io.ReadFull fails on the length byte or on the address: return, with the
\* deferred stream.Close()
EReqFail(ch, s) ==
    /\ sstrm[ch][s] = "request"
    /\ sstrm' = [sstrm EXCEPT ![ch][s] = "closed"]
    /\ UNCHANGED <<sws, ssess, shpc, sconn, notEndpointVars>>

\* net.DialTimeout fails: status 0x01, return, with the deferred stream.Close()
EDialFail(ch, s) ==
    /\ sstrm[ch][s] = "dial"
    /\ sstrm' = [sstrm EXCEPT ![ch][s] = "closed"]
    /\ UNCHANGED <<sws, ssess, shpc, sconn, notEndpointVars>>

\* net.DialTimeout succeeds: status 0x00 and the two copy loops
EDialOk(ch, s) ==
    /\ sstrm[ch][s] = "dial"
    /\ sstrm' = [sstrm EXCEPT ![ch][s] = "relay"]
    /\ sconn' = [sconn EXCEPT ![ch][s] = "open"]
    /\ UNCHANGED <<sws, ssess, shpc, notEndpointVars>>

\* a copy loop ends, by end of input or by an I/O error: <-done, return, with
\* the deferred conn.Close() and stream.Close()
ERelayEnd(ch, s) ==
    /\ sstrm[ch][s] = "relay"
    /\ sstrm' = [sstrm EXCEPT ![ch][s] = "closed"]
    /\ sconn' = [sconn EXCEPT ![ch][s] = "closed"]
    /\ UNCHANGED <<sws, ssess, shpc, notEndpointVars>>

\* ----------------------------------------------------------- SpecAcceptor

InitAcceptor ==
    /\ InitClientVars
    /\ InitDialVars
    /\ addr \in ClientAddrs
    /\ InitStreamVars
    /\ InitAcceptorVars
    /\ InitStopVars
    /\ InitCallerIdle
    /\ InitAdapterIdle
    /\ InitEndpointIdle

NextAcceptor ==
    \/ \E ch \in Chans : EAttach(ch) \/ ESessEnd(ch) \/ EAcceptErr(ch)
    \/ \E ch \in Chans, s \in StreamIds : EOpen(ch, s) \/ EAccept(ch, s)
    \/ \E ch \in Chans, s \in StreamIds : EReqOk(ch, s) \/ EReqFail(ch, s)
    \/ \E ch \in Chans, s \in StreamIds : EDialFail(ch, s) \/ EDialOk(ch, s) \/ ERelayEnd(ch, s)

SpecAcceptor == InitAcceptor /\ [][NextAcceptor]_vars

\* ------------------------------------------------ claims under SpecAcceptor

\* C13: at most one session of the Acceptor endpoint is open at a time, and a
\* session that was open when another channel attached accepts no stream
\* afterwards.
C13_OneAcceptorSession ==
    /\ Cardinality({ch \in Chans : ssess[ch] = "open"}) <= 1
    /\ \A a, b \in Chans, s \in StreamIds :
          (a # b /\ shpc[a] = "accept" /\ shpc[b] = "accept") => ~ENABLED EAccept(a, s)

\* the handler of stream s of the session over ch is running
Handling(ch, s) == sstrm[ch][s] \in {"request", "dial", "relay"}

\* C16: the step in which a stream's handler ends (request not readable, dial
\* failed, relay ended) changes that stream and its connection only: every
\* session, websocket and accept loop, every other stream and connection and
\* the Initiator's current-session reference stay as they are.
C16_StreamFailureIsLocal ==
    [][\A ch \in Chans, s \in StreamIds :
          (Handling(ch, s) /\ sstrm'[ch][s] = "closed")
              => /\ ssess' = ssess /\ shpc' = shpc /\ sws' = sws
                 /\ muxSession' = muxSession /\ wsConn' = wsConn
                 /\ \A c \in Chans, t \in StreamIds :
                       (c # ch \/ t # s)
                           => (sstrm'[c][t] = sstrm[c][t] /\ sconn'[c][t] = sconn[c][t])]_vars

\* C16 happens: one stream of an open session has failed at the dial, another
\* is being relayed, and the accept loop of the session is at Accept
C16_Witness ==
    \E ch \in Chans, s, t \in StreamIds :
        /\ sstrm[ch][s] = "closed" /\ sconn[ch][s] = "none"
        /\ sstrm[ch][t] = "relay" /\ sconn[ch][t] = "open"
        /\ ssess[ch] = "open" /\ shpc[ch] = "accept"

\* ------------------------------------------------------------ Client.Stop

\* everything Stop leaves alone
notStopVars == <<dialVars, stream, streamSess, cliClosed, c2s, s2c, peerClosed, acceptorVars,
                 adapterVars, endpointVars, callerVars>>

\* yamux's Session.Close: the session is shut down and the connection under
\* it closed
CloseSession(se, ch) == IF ch # Nil /\ se[ch] = "open" THEN [se EXCEPT ![ch] = "closed"] ELSE se

\* the signal handler calls c.Stop(): c.cancel()
StopCancel ==
    /\ stpc = "idle"
    /\ cCtxDone' = TRUE
    /\ stpc' = "session"
    /\ UNCHANGED <<clientVars, notStopVars>>

\* if c.muxSession != nil { c.muxSession.Close() }: the field is read without
\* c.muxMu, whoever holds it
StopSession ==
    /\ stpc = "session"
    /\ session' = CloseSession(session, muxSession)
    /\ ws' = IF muxSession # Nil /\ session[muxSession] = "open" THEN CloseWs(ws, muxSession) ELSE ws
    /\ stpc' = "ws"
    /\ UNCHANGED <<muxSession, wsConn, muxMu, hpc, superseded, cCtxDone, notStopVars>>

\* if c.wsConn != nil { c.wsConn.Close() }: read without c.muxMu as well
StopWs ==
    /\ stpc = "ws"
    /\ ws' = CloseWs(ws, wsConn)
    /\ stpc' = "server"
    /\ UNCHANGED <<muxSession, wsConn, muxMu, session, hpc, superseded, cCtxDone, notStopVars>>

\* if c.server != nil { c.server.Close() }
StopServer ==
    /\ stpc = "server"
    /\ stpc' = "done"
    /\ UNCHANGED <<clientVars, cCtxDone, notStopVars>>

Stop == StopCancel \/ StopSession \/ StopWs \/ StopServer

\* --------------------------------------------------------------- SpecStop

NextStop == Handlers \/ Dial \/ Stop

SpecStop == InitClient /\ [][NextStop]_vars

\* ---------------------------------------------------- claims under SpecStop

\* C18: Stop reads c.muxSession and c.wsConn only while no other task holds
\* c.muxMu, as it would if it took the lock for the read.
C18_StopReadsUnderLock ==
    [][(stpc \in {"session", "ws"} /\ stpc' # stpc) => muxMu = "free"]_vars

\* C19: once Stop has cancelled, a call waiting in its poll is cancelled: its
\* select can take the cancellation branch and return.
C19_StopCancelsPolls ==
    (cCtxDone /\ dpc = "wait") => ENABLED DialCancelled

\* ------------------------------------------- Client.muxMu, step by step

\* c.muxMu.Lock() at the head of the loop body
DialLock ==
    /\ dpc = "check"
    /\ muxMu = "free"
    /\ muxMu' = "dial"
    /\ dpc' = "locked"
    /\ UNCHANGED <<muxSession, wsConn, ws, session, hpc, superseded, retries, ctxDone, dres,
                   addr, status, streamVars, acceptorVars, restVars>>

\* a pass that returns the error of Open with the lock still held
DialLockedKeepsLockOnError ==
    /\ dpc = "locked"
    /\ muxMu = "dial"
    /\ IF muxSession # Nil
       THEN \E o \in OpenOutcomes(muxSession) :
                IF o = "stream"
                THEN /\ stream' = "open"
                     /\ streamSess' = muxSession
                     /\ dpc' = "write"
                     /\ dres' = dres
                     /\ muxMu' = "free"
                ELSE /\ dpc' = "done"
                     /\ dres' = "openfail"
                     /\ muxMu' = muxMu
                     /\ UNCHANGED <<stream, streamSess>>
       ELSE /\ dpc' = "wait"
            /\ muxMu' = "free"
            /\ UNCHANGED <<stream, streamSess, dres>>
    /\ UNCHANGED <<muxSession, wsConn, ws, session, hpc, superseded, retries, ctxDone, addr,
                   status, cliClosed, c2s, s2c, peerClosed, acceptorVars, restVars>>

\* with the lock held: if c.muxSession != nil { stream, err = Open();
\* c.muxMu.Unlock(); break or return the error }; c.muxMu.Unlock()
DialLocked ==
    /\ dpc = "locked"
    /\ muxMu = "dial"
    /\ muxMu' = "free"
    /\ IF muxSession # Nil
       THEN \E o \in OpenOutcomes(muxSession) :
                IF o = "stream"
                THEN /\ stream' = "open"
                     /\ streamSess' = muxSession
                     /\ dpc' = "write"
                     /\ dres' = dres
                ELSE /\ dpc' = "done"
                     /\ dres' = "openfail"
                     /\ UNCHANGED <<stream, streamSess>>
       ELSE /\ dpc' = "wait"
            /\ UNCHANGED <<stream, streamSess, dres>>
    /\ UNCHANGED <<muxSession, wsConn, ws, session, hpc, superseded, retries, ctxDone, addr,
                   status, cliClosed, c2s, s2c, peerClosed, acceptorVars, restVars>>

\* everything the other calls leave alone
notCallerVars == <<muxSession, wsConn, ws, session, hpc, superseded, dialVars, streamVars,
                   acceptorVars, stopVars, adapterVars, endpointVars>>

\* the SOCKS5 server calls the Dial hook for another connection
QStart ==
    /\ qpc = "idle"
    /\ qpc' = "check"
    /\ UNCHANGED <<muxMu, notCallerVars>>

\* that call's c.muxMu.Lock()
QLock ==
    /\ qpc = "check"
    /\ muxMu = "free"
    /\ muxMu' = "q"
    /\ qpc' = "locked"
    /\ UNCHANGED notCallerVars

\* that call's test of c.muxSession and c.muxMu.Unlock(): with a session it
\* goes on with a stream of its own or returns Open's error, without one it
\* waits for its tick
QUnlock ==
    /\ qpc = "locked"
    /\ muxMu = "q"
    /\ muxMu' = "free"
    /\ qpc' = IF muxSession # Nil THEN "idle" ELSE "wait"
    /\ UNCHANGED notCallerVars

\* that call's select: the tick and another pass, or the ceiling or the
\* cancellation and return
QTick ==
    /\ qpc = "wait"
    /\ qpc' \in {"check", "idle"}
    /\ UNCHANGED <<muxMu, notCallerVars>>

\* --------------------------------------------------------------- SpecLock

NextLock ==
    \/ Handlers
    \/ DialStart \/ DialLock \/ DialLocked \/ DialTick \/ DialCancelled \/ CtxCancel
    \/ QStart \/ QLock \/ QUnlock \/ QTick

SpecLock == InitClient /\ [][NextLock]_vars

\* the step in which the holder of c.muxMu unlocks it
Release ==
    \/ DialLocked
    \/ QUnlock
    \/ \E ch \in Chans : HAttachPublish(ch) \/ HAttachFail(ch)

\* the task that holds c.muxMu goes on to its Unlock; sync.Mutex hands the
\* lock to a task that keeps waiting for it (starvation mode), so a handler
\* that finds the lock free again and again gets it
FairLock ==
    /\ SpecLock
    /\ WF_vars(Release)
    /\ \A ch \in Chans : SF_vars(HAttachBegin(ch) \/ HClear(ch))

\* -------------------------------------------------- claims under FairLock

\* the tasks are where c.muxMu says they are
LockHeldOnlyInside ==
    /\ muxMu = "dial" <=> dpc = "locked"
    /\ muxMu = "q" <=> qpc = "locked"
    /\ \A ch \in Chans : muxMu = ch <=> hpc[ch] = "setup"

\* whoever holds c.muxMu can take its next step, which releases it
HolderCanRelease ==
    /\ muxMu = "dial" => ENABLED DialLocked
    /\ muxMu = "q" => ENABLED QUnlock
    /\ \A ch \in Chans : muxMu = ch => ENABLED (HAttachPublish(ch) \/ HAttachFail(ch))

\* C21: c.muxMu is held only between a Lock and the Unlock of the same pass:
\* not at the tick or cancellation wait, not at the wait for the session's
\* close, not after a return (setup failure and Open's error included); its
\* holder can always go on to release it; and a handler that asks for it, to
\* attach or to handle a close, gets it.
C21_LockReleasedAndGranted ==
    /\ [](LockHeldOnlyInside /\ HolderCanRelease)
    /\ \A ch \in Chans : (hpc[ch] \in {"lock", "clear"}) ~> (hpc[ch] \in {"setup", "done"})

\* C21 happens: a handler asks for the lock to attach while the dial holds
\* it, another handler is waiting to handle its session's close, and the other
\* call is at its tick
C21_Witness ==
    /\ muxMu = "dial"
    /\ qpc = "wait"
    /\ \E a, b \in Chans : hpc[a] = "lock" /\ hpc[b] = "clear"

====
